---- MODULE Spec2Model ----
(***************************************************************************)
(* Model of the ORCH team invocation scripts:                              *)
(*   orch/scripts/verify-invocation.py  (InvocationVerifier, main)         *)
(*   orch/scripts/discover-agents.py    (AgentDiscovery)                   *)
(*                                                                         *)
(* Python lists are sequences.  A list held by the configuration document  *)
(* and the list a method returns are the same object when the code returns *)
(* the configuration's list itself; an in-place update of such a list is   *)
(* modelled as an update of the configuration.  Request texts are          *)
(* sequences of one-character strings.  Times are tenths of a minute and   *)
(* costs are cents, so that the configured rates 0.5, 2 and 0.10 are       *)
(* integers.  The wall-clock duration actual_time is not recorded.         *)
(***************************************************************************)
EXTENDS Integers, Sequences, FiniteSets, TLC

(* ---------------------------- bounds ---------------------------------- *)
NumAgents == 3
MaxListLen == 2
MaxPresetLen == 1
MaxCritical == 1
MaxFailed == 1
MaxNow == 3
TicksPerSecond == 2
MaxFragments == 2

MaxThreshold == 2

(* ------------------------- generic helpers ---------------------------- *)
Range(s) == {s[i] : i \in 1..Len(s)}

Count(s, x) == Cardinality({i \in 1..Len(s) : s[i] = x})

SeqsUpTo(S, n) == UNION {[1..k -> S] : k \in 0..n}

RECURSIVE FilterSeq(_, _)
FilterSeq(s, S) ==
  IF s = <<>> THEN <<>>
  ELSE IF Head(s) \in S THEN <<Head(s)>> \o FilterSeq(Tail(s), S)
       ELSE FilterSeq(Tail(s), S)

AgentNames == <<"a", "b", "c", "d", "e", "f">>

AgentSeq == SubSeq(AgentNames, 1, NumAgents)

Agents == Range(AgentSeq)

(* --------------------------- request texts ---------------------------- *)
UpperToLower ==
  "A" :> "a" @@ "B" :> "b" @@ "C" :> "c" @@ "D" :> "d" @@ "E" :> "e" @@ "F" :> "f" @@ "G" :> "g" @@ "H" :> "h" @@ "I" :> "i" @@ "J" :> "j" @@ "K" :> "k" @@ "L" :> "l" @@ "M" :> "m" @@ "N" :> "n" @@ "O" :> "o" @@ "P" :> "p" @@ "Q" :> "q" @@ "R" :> "r" @@ "S" :> "s" @@ "T" :> "t" @@ "U" :> "u" @@ "V" :> "v" @@ "W" :> "w" @@ "X" :> "x" @@ "Y" :> "y" @@ "Z" :> "z"

(* variant: the text is searched as typed, lower() is forgotten *)
not_lowered(text) == text

lower(text) == [i \in 1..Len(text) |-> IF text[i] \in DOMAIN UpperToLower THEN UpperToLower[text[i]] ELSE text[i]]

(* variant: startswith() instead of "in" *)
StartsWith(sub, text) == Len(sub) <= Len(text) /\ SubSeq(text, 1, Len(sub)) = sub

Contains(sub, text) ==
  \E i \in 1..(Len(text) - Len(sub) + 1) : SubSeq(text, i, i + Len(sub) - 1) = sub

K_security == <<"s","e","c","u","r","i","t","y">>

K_leadership == <<"l","e","a","d","e","r","s","h","i","p">>

K_executive == <<"e","x","e","c","u","t","i","v","e">>

K_technical == <<"t","e","c","h","n","i","c","a","l">>

K_review == <<"r","e","v","i","e","w">>

K_product == <<"p","r","o","d","u","c","t">>

K_ai == <<"a","i">>

K_ml == <<"m","l">>

K_compliance == <<"c","o","m","p","l","i","a","n","c","e">>

K_evaluate == <<"e","v","a","l","u","a","t","e">>

K_assess == <<"a","s","s","e","s","s">>

K_analyze == <<"a","n","a","l","y","z","e">>

P_whole_team == <<"w","h","o","l","e"," ","t","e","a","m">>

P_everyone == <<"e","v","e","r","y","o","n","e">>

P_sec_audit == <<"s","e","c"," ","a","u","d","i","t">>

T_security == <<"S","e","c","u","r","i","t","y">>

T_whole_team == <<"W","h","o","l","e"," ","T","e","a","m">>

T_leadership == <<"l","e","a","d","e","r","s","h","i","p">>

T_product == <<"p","r","o","d","u","c","t">>

T_compliance == <<"C","o","m","p","l","i","a","n","c","e">>

T_ml == <<"M","L">>

Req1 ==
  <<"H","a","v","e"," ","t","h","e"," ","w","h","o","l","e"," ","t","e","a","m"," ","r","e","v","i","e","w"," ","t","h","e"," ","p","l","a","t","f","o","r","m">>

Req2 ==
  <<"I"," ","n","e","e","d"," ","a"," ","s","e","c","u","r","i","t","y"," ","r","e","v","i","e","w"," ","o","f"," ","t","h","e"," ","s","y","s","t","e","m">>

Req3 ==
  <<"G","e","t"," ","t","h","e"," ","l","e","a","d","e","r","s","h","i","p"," ","t","e","a","m","'","s"," ","p","e","r","s","p","e","c","t","i","v","e">>

Req4 ==
  <<"R","e","v","i","e","w"," ","t","h","e"," ","t","e","c","h","n","i","c","a","l"," ","a","r","c","h","i","t","e","c","t","u","r","e">>

F_whole_team == <<"W","h","o","l","e"," ","T","e","a","m">>

F_everyone == <<"e","v","e","r","y","o","n","e">>

F_sec_audit == <<"S","E","C"," ","A","u","d","i","t">>

F_security == <<"S","e","c","u","r","i","t","y">>

F_executive == <<"E","x","e","c","u","t","i","v","e">>

F_leadership == <<"l","e","a","d","e","r","s","h","i","p">>

F_technical == <<"t","e","c","h","n","i","c","a","l">>

F_review == <<"R","e","v","i","e","w">>

F_product == <<"p","r","o","d","u","c","t">>

F_ai == <<"A","I">>

F_ml == <<"m","l">>

F_compliance == <<"c","o","m","p","l","i","a","n","c","e">>

F_evaluate == <<"e","v","a","l","u","a","t","e">>

F_assess == <<"a","s","s","e","s","s">>

F_analyze == <<"A","n","a","l","y","z","e">>

F_hi == <<"h","i">>

Fragments ==
  {F_whole_team, F_everyone, F_sec_audit, F_security, F_executive, F_leadership, F_technical, F_review,
   F_product, F_ai, F_ml, F_compliance, F_evaluate, F_assess, F_analyze, F_hi}

(* the fragments of fs, separated by single spaces *)
RECURSIVE JoinWords(_)
JoinWords(fs) ==
  IF fs = <<>> THEN <<>>
  ELSE IF Len(fs) = 1 THEN Head(fs)
  ELSE Head(fs) \o <<" ">> \o JoinWords(Tail(fs))

ParseTexts == {JoinWords(fs) : fs \in SeqsUpTo(Fragments, MaxFragments)}

RequestTexts == {T_security, T_whole_team, T_leadership, T_product}

test_requests == <<Req1, Req2, Req3, Req4>>

(* ------------------------------ state --------------------------------- *)
VARIABLES
  config,             \* InvocationVerifier.config (orch-config.yaml, loaded once)
  manifest,           \* InvocationVerifier.manifest (orch-team-manifest.json)
  hash_order,         \* iteration order of a str set in this process (hash seed)
  plan,               \* the InvocationPlan the caller holds
  actually_invoked,   \* what the execution layer reported as invoked
  reported_failed,    \* what the execution layer knows as attempted-but-failed
  result,             \* the InvocationResult of the plan the caller holds
  now,                \* wall clock, in half seconds
  log_files,          \* logs/invocations: file stamp -> JSON entry
  log_calls,          \* number of completed log_invocation calls
  main_i,             \* main(): index into test_requests
  main_pc,            \* main(): position inside the loop body
  discovered_agents,  \* AgentDiscovery.discovered_agents, in dict order
  selected,           \* last return value of get_agents_for_request
  invocation_list,    \* last return value of generate_invocation_list
  confirmation,       \* what get_confirmation asked and returned for the plan
  calls               \* create_invocation_plan calls in progress, one per thread

vars == <<config, manifest, hash_order, plan, actually_invoked, reported_failed,
          result, now, log_files, log_calls, main_i, main_pc,
          discovered_agents, selected, invocation_list, confirmation, calls>>

NoPlan == [request_type |-> "none"]

NoResult == [success |-> "none"]

NoList == [request_type |-> "none", agents |-> <<>>]

NoConfirmation == [level |-> "not_asked", proceed |-> FALSE]

Threads == {1, 2}

IdleCall == [pc |-> "idle"]

NoCalls == [th \in Threads |-> IdleCall]

(* ------------------------ configuration documents --------------------- *)
AllMarker == [kind |-> "all", list |-> <<>>]

ListOf(l) == [kind |-> "list", list |-> l]

(* a rule without an agents field: rule.get("agents", []) gives [] *)
AbsentField == [kind |-> "absent", list |-> <<>>]

(* an agents field holding a number or null; the value is handed on as is *)
ScalarValue == <<"#scalar">>

ScalarField == [kind |-> "scalar", list |-> ScalarValue]

(* no plan is returned: the call ended in a TypeError *)
PlanRaised == [request_type |-> "TypeError"]

CompleteGroups ==
  << [name |-> "g1", trigger_agents |-> <<"b">>, must_include |-> <<"a", "b">>],
     [name |-> "g2", trigger_agents |-> <<"a">>, must_include |-> <<"c">>] >>

Aliases ==
  << [tag |-> "whole_team", kind |-> "list", phrases |-> <<P_whole_team, P_everyone>>],
     [tag |-> "security_review", kind |-> "str", phrases |-> P_sec_audit] >>

MakeConfig(rule_list, preset_list) ==
  [ invocation_rules |->
      ("whole_team" :> [agents |-> AllMarker]
       @@ "full_review" :> [agents |-> AllMarker]
       @@ "compliance_review" :> [agents |-> AbsentField]
       @@ "ai_ml_review" :> [agents |-> ScalarField]
       @@ "security_review" :> [agents |-> ListOf(rule_list)]),
    presets |->
      ("leadership_review" :> [agents |-> preset_list]
       @@ "security_review" :> [agents |-> preset_list]),
    invocation_aliases |-> Aliases,
    safety_checks |->
      [ complete_groups |-> CompleteGroups,
        require_confirmation_above |-> 1,
        require_double_confirmation_above |-> 2 ],
    resource_management |->
      [ time_per_agent |-> 5, time_overhead |-> 20, estimated_cost_per_agent |-> 10 ] ]

MakeManifest(critical) ==
  [ agents |-> AgentSeq,
    validation |-> [critical_agents_always_include |-> critical] ]

CriticalLists == {SubSeq(AgentSeq, 1, k) : k \in 0..MaxCritical}

Reverse(s) == [i \in 1..Len(s) |-> s[Len(s) + 1 - i]]

HashOrders == {AgentSeq, Reverse(AgentSeq)}

(* list(set(xs)): the distinct elements of xs in the process's set order *)
list_set(xs, order) == FilterSeq(order, Range(xs))

(* --------------------------- InvocationVerifier ------------------------ *)
RECURSIVE AliasMatch(_, _)
AliasMatch(aliases, request_lower) ==
  IF aliases = <<>> THEN "no_alias"
  ELSE LET a == Head(aliases)
           hit == IF a.kind = "list"
                  THEN \E i \in 1..Len(a.phrases) : Contains(lower(a.phrases[i]), request_lower)
                  ELSE Contains(lower(a.phrases), request_lower)
       IN IF hit THEN a.tag ELSE AliasMatch(Tail(aliases), request_lower)

parse_request(cfg, request_text) ==
  LET request_lower == lower(request_text)
      alias_type == AliasMatch(cfg.invocation_aliases, request_lower)
  IN IF alias_type # "no_alias" THEN alias_type
     ELSE IF Contains(K_security, request_lower) THEN "security_review"
     ELSE IF Contains(K_leadership, request_lower) \/ Contains(K_executive, request_lower)
          THEN "leadership_review"
     ELSE IF Contains(K_technical, request_lower) /\ Contains(K_review, request_lower)
          THEN "technical_review"
     ELSE IF Contains(K_product, request_lower) THEN "product_review"
     ELSE IF Contains(K_ai, request_lower) \/ Contains(K_ml, request_lower) THEN "ai_ml_review"
     ELSE IF Contains(K_compliance, request_lower) THEN "compliance_review"
     ELSE IF \E w \in {K_review, K_evaluate, K_assess, K_analyze} : Contains(w, request_lower)
          THEN "whole_team"
     ELSE "custom"

(* which object get_agents_for_request returns: the rule's own list, the   *)
(* preset's own list, or a list built for the call                         *)
ReturnedObject(cfg, request_type) ==
  IF request_type \in DOMAIN cfg.invocation_rules
  THEN IF cfg.invocation_rules[request_type].agents.kind = "list" THEN "rule" ELSE "fresh"
  ELSE IF request_type \in DOMAIN cfg.presets THEN "preset" ELSE "fresh"

(* variant: presets are consulted before the invocation rules *)
get_agents_for_request_presets_first(cfg, mf, request_type) ==
  IF request_type \in DOMAIN cfg.presets
  THEN cfg.presets[request_type].agents
  ELSE IF request_type \in DOMAIN cfg.invocation_rules
       THEN LET agents == cfg.invocation_rules[request_type].agents
            IN IF agents.kind = "all" THEN mf.agents ELSE agents.list
       ELSE mf.agents

(* variant: the "all" marker is not expanded against the manifest *)
get_agents_for_request_unexpanded(cfg, mf, request_type) ==
  IF request_type \in DOMAIN cfg.invocation_rules
  THEN cfg.invocation_rules[request_type].agents.list
  ELSE IF request_type \in DOMAIN cfg.presets
       THEN cfg.presets[request_type].agents
       ELSE mf.agents

get_agents_for_request(cfg, mf, request_type) ==
  IF request_type \in DOMAIN cfg.invocation_rules
  THEN LET agents == cfg.invocation_rules[request_type].agents
       IN IF agents.kind = "all" THEN mf.agents ELSE agents.list
  ELSE IF request_type \in DOMAIN cfg.presets
       THEN cfg.presets[request_type].agents
       ELSE mf.agents

check_critical_agents(mf, agents_list) ==
  LET critical_agents == mf.validation.critical_agents_always_include
      missing_critical == SelectSeq(critical_agents, LAMBDA c : c \notin Range(agents_list))
  IN [all_included |-> Len(missing_critical) = 0, missing_critical |-> missing_critical]

(* variant: only the group reached last keeps its suggestions *)
LastGroupSuggestions(groups, agents_list) ==
  IF groups = <<>> THEN <<>>
  ELSE LET g == groups[Len(groups)]
       IN IF \E i \in 1..Len(g.trigger_agents) : g.trigger_agents[i] \in Range(agents_list)
          THEN SelectSeq(g.must_include, LAMBDA r : r \notin Range(agents_list))
          ELSE <<>>

RECURSIVE GroupSuggestions(_, _)
GroupSuggestions(groups, agents_list) ==
  IF groups = <<>> THEN <<>>
  ELSE LET g == Head(groups)
           here == IF \E i \in 1..Len(g.trigger_agents) : g.trigger_agents[i] \in Range(agents_list)
                   THEN SelectSeq(g.must_include, LAMBDA r : r \notin Range(agents_list))
                   ELSE <<>>
       IN here \o GroupSuggestions(Tail(groups), agents_list)

(* variant: the loop over the groups returns after the first group *)
check_group_completeness_first_group(cfg, order, agents_list) ==
  LET groups == cfg.safety_checks.complete_groups
  IN list_set(GroupSuggestions(SubSeq(groups, 1, 1), agents_list), order)

check_group_completeness(cfg, order, agents_list) ==
  list_set(GroupSuggestions(cfg.safety_checks.complete_groups, agents_list), order)

estimate_resources(cfg, agents_list) ==
  LET rc == cfg.resource_management
  IN [ estimated_time |-> Len(agents_list) * rc.time_per_agent + rc.time_overhead,
       estimated_cost |-> Len(agents_list) * rc.estimated_cost_per_agent ]

LargeInvocationAbove == 25

DefaultConfirmAbove == 10

DefaultDoubleConfirmAbove == 25

(* safety_config.get("require_confirmation_above", 10) *)
confirm_threshold(cfg) ==
  IF "require_confirmation_above" \in DOMAIN cfg.safety_checks
  THEN cfg.safety_checks.require_confirmation_above
  ELSE DefaultConfirmAbove

(* .get("require_double_confirmation_above", 25) *)
double_confirm_threshold(cfg) ==
  IF "require_double_confirmation_above" \in DOMAIN cfg.safety_checks
  THEN cfg.safety_checks.require_double_confirmation_above
  ELSE DefaultDoubleConfirmAbove

Warning(kind, agents, count, time) ==
  [kind |-> kind, agents |-> agents, count |-> count, time |-> time]

(* the plan returned, and the configuration as the call leaves it *)
create_invocation_plan(cfg, mf, order, request_text) ==
  LET request_type == parse_request(cfg, request_text)
      agents_list == get_agents_for_request(cfg, mf, request_type)
      crit == check_critical_agents(mf, agents_list)
      suggested_additions == check_group_completeness(cfg, order, agents_list)
      extended == agents_list \o suggested_additions
      final == IF suggested_additions # <<>> THEN list_set(extended, order) ELSE agents_list
      est == estimate_resources(cfg, final)
      requires_confirmation == Len(final) > confirm_threshold(cfg)
      warnings ==
        (IF crit.missing_critical # <<>>
         THEN <<Warning("critical_missing", crit.missing_critical, 0, 0)>> ELSE <<>>)
        \o (IF suggested_additions # <<>>
            THEN <<Warning("added_for_completeness", suggested_additions, 0, 0)>> ELSE <<>>)
        \o (IF Len(final) > LargeInvocationAbove
            THEN <<Warning("large_invocation", <<>>, Len(final), est.estimated_time)>> ELSE <<>>)
      where == ReturnedObject(cfg, request_type)
  IN IF agents_list = ScalarValue
     THEN \* "x in <number>" and len(<number>) raise TypeError
          [plan |-> PlanRaised, config |-> cfg]
     ELSE
     [ plan |->
         [ request_text |-> request_text,
           request_type |-> request_type,
           agents_to_invoke |-> final,
           estimated_time |-> est.estimated_time,
           estimated_cost |-> est.estimated_cost,
           requires_confirmation |-> requires_confirmation,
           critical_agents_included |-> crit.all_included,
           warnings |-> warnings ],
       config |->
         IF suggested_additions = <<>> THEN cfg
         ELSE IF where = "rule"
              THEN [cfg EXCEPT !.invocation_rules[request_type].agents.list = extended]
         ELSE IF where = "preset"
              THEN [cfg EXCEPT !.presets[request_type].agents = extended]
         ELSE cfg ]

(* len(agents_invoked) / len(plan.agents_to_invoke), 0 for an empty plan,  *)
(* as the fraction <<numerator, denominator>>                              *)
completion_rate(agents_invoked, agents_to_invoke) ==
  IF Len(agents_to_invoke) > 0 THEN <<Len(agents_invoked), Len(agents_to_invoke)>> ELSE <<0, 1>>

(* variant: the threshold is one half *)
BelowHalf(rate) == 2 * rate[1] < rate[2]

(* rate < 0.9 *)
BelowThreshold(rate) == 10 * rate[1] < 9 * rate[2]

(* the rate as "{:.1%}" shows it: thousandths, rounded to nearest *)
Permille(rate) == (2000 * rate[1] + rate[2]) \div (2 * rate[2])

Issue(kind, agents, rate) == [kind |-> kind, agents |-> agents, rate |-> rate]

(* the loop over plan.agents_to_invoke *)
(* variant: everything reported as invoked is counted, planned or not *)
all_reported_invoked(p, invoked) == FilterSeq(AgentSeq, invoked)

planned_and_invoked(p, invoked) == SelectSeq(p.agents_to_invoke, LAMBDA a : a \in invoked)

planned_not_invoked(p, invoked) == SelectSeq(p.agents_to_invoke, LAMBDA a : a \notin invoked)

verify_invocation_completeness(cfg, mf, p, invoked) ==
  LET agents_invoked == planned_and_invoked(p, invoked)
      agents_failed == <<>>
      agents_skipped == planned_not_invoked(p, invoked)
      actual_cost == Len(agents_invoked) * cfg.resource_management.estimated_cost_per_agent
      critical_agents == mf.validation.critical_agents_always_include
      critical_skipped == SelectSeq(critical_agents, LAMBDA a : a \in Range(agents_skipped))
      rate == completion_rate(agents_invoked, p.agents_to_invoke)
      issues ==
        (IF critical_skipped # <<>>
         THEN <<Issue("critical_skipped", critical_skipped, 0)>> ELSE <<>>)
        \o (IF BelowThreshold(rate)
            THEN <<Issue("low_completion", <<>>, Permille(rate))>> ELSE <<>>)
  IN [ plan |-> p,
       agents_invoked |-> agents_invoked,
       agents_failed |-> agents_failed,
       agents_skipped |-> agents_skipped,
       actual_cost |-> actual_cost,
       success |-> (critical_skipped = <<>>),
       issues |-> issues ]

(* datetime.now().strftime('%Y%m%d_%H%M%S'): the clock cut to whole seconds *)
FileStamp(t) == t \div TicksPerSecond

log_entry(r, t) ==
  [ timestamp |-> t,
    request |-> r.plan.request_text,
    request_type |-> r.plan.request_type,
    agents_planned |-> Len(r.plan.agents_to_invoke),
    agents_invoked |-> Len(r.agents_invoked),
    agents_skipped |-> r.agents_skipped,
    completion_rate |-> completion_rate(r.agents_invoked, r.plan.agents_to_invoke),
    success |-> r.success,
    issues |-> r.issues,
    estimated_time |-> r.plan.estimated_time,
    estimated_cost |-> r.plan.estimated_cost,
    actual_cost |-> r.actual_cost ]

(* open(log_file, 'w') creates the file or replaces its content *)
log_invocation(files, r, t) == (FileStamp(t) :> log_entry(r, t)) @@ files

(* simulate_invocation: the sets random.sample can return; the number of   *)
(* sampled positions is int(len * u) for some u in [0.90, 0.95]            *)
simulate_invocation(agents_list) ==
  LET n == Len(agents_list)
  IN { {agents_list[i] : i \in S} :
         S \in {T \in SUBSET (1..n) :
                  /\ (9 * n) \div 10 <= Cardinality(T)
                  /\ Cardinality(T) <= (95 * n) \div 100} }

(* ----------------------------- AgentDiscovery ------------------------- *)
valid_agents(discovered) ==
  LET kept == SelectSeq(discovered, LAMBDA d : d.valid)
  IN [i \in 1..Len(kept) |-> kept[i].name]

generate_invocation_list(cfg, discovered, request_type) ==
  IF request_type = "whole_team" \/ request_type = "all"
  THEN valid_agents(discovered)
  ELSE IF request_type \in DOMAIN cfg.invocation_rules
       THEN LET agent_list == cfg.invocation_rules[request_type].agents
            IN IF agent_list.kind = "all" THEN valid_agents(discovered) ELSE agent_list.list
  ELSE IF request_type \in DOMAIN cfg.presets
       THEN cfg.presets[request_type].agents
       ELSE valid_agents(discovered)

(* _process_agent_files over the agent files of the team directory: a file *)
(* that cannot be read or parsed is recorded with valid = False            *)
process_agent_files(readable) ==
  [i \in 1..Len(AgentSeq) |-> [name |-> AgentSeq[i], valid |-> AgentSeq[i] \in readable]]

R_YES == <<"Y", "E", "S">>

R_yes == <<"y", "e", "s">>

R_Y == <<"Y">>

R_y == <<"y">>

R_empty == <<>>

R_n == <<"n">>

(* what the operator may type at the prompt *)
Responses == {R_YES, R_yes, R_Y, R_empty, R_n}

(* variant: the double threshold is tested before requires_confirmation *)
get_confirmation_double_first(cfg, p, response) ==
  IF Len(p.agents_to_invoke) > double_confirm_threshold(cfg)
  THEN [level |-> "double", proceed |-> response = R_YES]
  ELSE IF ~p.requires_confirmation
       THEN [level |-> "none", proceed |-> TRUE]
       ELSE [level |-> "single", proceed |-> lower(response) \in {R_y, R_yes, R_empty}]

(* get_confirmation: which prompt is shown, and the value returned *)
get_confirmation(cfg, p, response) ==
  IF ~p.requires_confirmation
  THEN [level |-> "none", proceed |-> TRUE]
  ELSE IF Len(p.agents_to_invoke) > double_confirm_threshold(cfg)
       THEN [level |-> "double", proceed |-> response = R_YES]
       ELSE [level |-> "single", proceed |-> lower(response) \in {R_y, R_yes, R_empty}]

(* ---------------------- planning and verification --------------------- *)
LogIdle ==
  /\ now = 0
  /\ log_files = <<>>
  /\ log_calls = 0
  /\ main_i = 1
  /\ main_pc = "idle"

DiscoveryIdle ==
  /\ discovered_agents = <<>>
  /\ selected = NoList
  /\ invocation_list = NoList

CallerIdle ==
  /\ plan = NoPlan
  /\ actually_invoked = {}
  /\ reported_failed = {}
  /\ result = NoResult
  /\ confirmation = NoConfirmation
  /\ calls = NoCalls

Init ==
  /\ \E rule_list \in SeqsUpTo(Agents, MaxListLen),
        preset_list \in SeqsUpTo(Agents, MaxPresetLen) :
       config = MakeConfig(rule_list, preset_list)
  /\ \E critical \in CriticalLists : manifest = MakeManifest(critical)
  /\ hash_order \in HashOrders
  /\ CallerIdle
  /\ LogIdle
  /\ DiscoveryIdle

(* plan = verifier.create_invocation_plan(request); the result of an       *)
(* earlier plan is dead from here on                                       *)
CreatePlan(request_text) ==
  LET r == create_invocation_plan(config, manifest, hash_order, request_text)
  IN /\ plan' = r.plan
     /\ config' = r.config
     /\ result' = NoResult
     /\ actually_invoked' = {}
     /\ reported_failed' = {}
     /\ confirmation' = NoConfirmation
     /\ UNCHANGED <<manifest, hash_order, now, log_files, log_calls, main_i, main_pc, calls,
                    discovered_agents, selected, invocation_list>>

(* result = verifier.verify_invocation_completeness(plan, actually_invoked) *)
(* the execution layer's knowledge of failed attempts is not a parameter;   *)
(* the call is a function of the plan and the report, so verifying a plan   *)
(* once reaches every result                                                *)
Verify(invoked, failed) ==
  /\ plan # NoPlan
  /\ result = NoResult
  /\ result' = verify_invocation_completeness(config, manifest, plan, invoked)
  /\ actually_invoked' = invoked
  /\ reported_failed' = failed
  /\ UNCHANGED <<config, manifest, hash_order, plan, now, log_files, log_calls, confirmation, calls,
                 main_i, main_pc, discovered_agents, selected, invocation_list>>

(* attempted-but-failed agents: planned, not invoked *)
FailedReports(invoked) ==
  IF plan = NoPlan THEN {}
  ELSE {f \in SUBSET (Range(plan.agents_to_invoke) \ invoked) : Cardinality(f) <= MaxFailed}

Next ==
  \/ \E request_text \in RequestTexts : CreatePlan(request_text)
  \/ \E invoked \in SUBSET Agents :
       \E failed \in FailedReports(invoked) : Verify(invoked, failed)

Spec == Init /\ [][Next]_vars

(* ------------------------------- main() ------------------------------- *)
InitMain ==
  /\ \E rule_list \in SeqsUpTo(Agents, MaxListLen),
        preset_list \in SeqsUpTo(Agents, MaxPresetLen) :
       config = MakeConfig(rule_list, preset_list)
  /\ \E critical \in CriticalLists : manifest = MakeManifest(critical)
  /\ hash_order \in HashOrders
  /\ CallerIdle
  /\ now = 0
  /\ log_files = <<>>
  /\ log_calls = 0
  /\ main_i = 1
  /\ main_pc = "plan"
  /\ DiscoveryIdle

MainUnchanged ==
  UNCHANGED <<manifest, hash_order, discovered_agents, selected, invocation_list,
              confirmation, calls>>

MainCreatePlan ==
  /\ main_pc = "plan"
  /\ main_i <= Len(test_requests)
  /\ LET r == create_invocation_plan(config, manifest, hash_order, test_requests[main_i])
     IN /\ plan' = r.plan
        /\ config' = r.config
  /\ result' = NoResult
  /\ actually_invoked' = {}
  /\ main_pc' = "simulate"
  /\ UNCHANGED <<reported_failed, now, log_files, log_calls, main_i>>
  /\ MainUnchanged

MainSimulate ==
  /\ main_pc = "simulate"
  /\ actually_invoked' \in simulate_invocation(plan.agents_to_invoke)
  /\ main_pc' = "verify"
  /\ UNCHANGED <<config, plan, reported_failed, result, now, log_files, log_calls, main_i>>
  /\ MainUnchanged

MainVerify ==
  /\ main_pc = "verify"
  /\ result' = verify_invocation_completeness(config, manifest, plan, actually_invoked)
  /\ main_pc' = "log"
  /\ UNCHANGED <<config, plan, actually_invoked, reported_failed, now, log_files, log_calls, main_i>>
  /\ MainUnchanged

MainLog ==
  /\ main_pc = "log"
  /\ log_files' = log_invocation(log_files, result, now)
  /\ log_calls' = log_calls + 1
  /\ main_i' = main_i + 1
  /\ main_pc' = "plan"
  /\ UNCHANGED <<config, plan, actually_invoked, reported_failed, result, now>>
  /\ MainUnchanged

(* time passes between any two steps of the loop *)
Tick ==
  /\ now < MaxNow
  /\ now' = now + 1
  /\ UNCHANGED <<config, plan, actually_invoked, reported_failed, result, log_files,
                 log_calls, main_i, main_pc>>
  /\ MainUnchanged

NextMain == MainCreatePlan \/ MainSimulate \/ MainVerify \/ MainLog \/ Tick

SpecMain == InitMain /\ [][NextMain]_vars

(* one planning call per text: a verifier that serves a single request *)
PlanOnce(request_text) ==
  /\ plan = NoPlan
  /\ CreatePlan(request_text)

(* ------------------------------ confirming ---------------------------- *)
Thresholds == 0..MaxThreshold

WithoutKeys(f, keys) == [k \in DOMAIN f \ keys |-> f[k]]

ThresholdKeys == {"require_confirmation_above", "require_double_confirmation_above"}

(* the two thresholds in either order, or left to their defaults *)
InitConfirm ==
  /\ \E rule_list \in SeqsUpTo(Agents, MaxListLen) :
       \/ \E ca \in Thresholds, da \in Thresholds :
            config = [MakeConfig(rule_list, <<>>) EXCEPT
                        !.safety_checks.require_confirmation_above = ca,
                        !.safety_checks.require_double_confirmation_above = da]
       \/ config = [MakeConfig(rule_list, <<>>) EXCEPT
                      !.safety_checks = WithoutKeys(@, ThresholdKeys)]
  /\ manifest = MakeManifest(<<>>)
  /\ hash_order = AgentSeq
  /\ CallerIdle
  /\ LogIdle
  /\ DiscoveryIdle

(* verifier.get_confirmation(plan) with the operator's answer *)
GetConfirmation(response) ==
  /\ plan # NoPlan
  /\ plan # PlanRaised
  /\ confirmation = NoConfirmation
  /\ confirmation' = get_confirmation(config, plan, response)
  /\ UNCHANGED <<config, manifest, hash_order, plan, actually_invoked, reported_failed, result,
                 now, log_files, log_calls, main_i, main_pc, calls,
                 discovered_agents, selected, invocation_list>>

NextConfirm ==
  \/ \E request_text \in RequestTexts : PlanOnce(request_text)
  \/ \E response \in Responses : GetConfirmation(response)

SpecConfirm == InitConfirm /\ [][NextConfirm]_vars

(* ------------------ two planning calls on one verifier ---------------- *)
(* a call that has not started; isolated is the plan the same call returns *)
(* when it runs alone on the verifier as constructed                       *)
StartCall(request_text, isolated) ==
  [ pc |-> "idle",
    request_text |-> request_text,
    isolated |-> isolated,
    request_type |-> "none",
    where |-> "fresh",
    own |-> <<>>,
    crit |-> [all_included |-> TRUE, missing_critical |-> <<>>],
    suggested_additions |-> <<>>,
    plan |-> NoPlan ]

InitConc ==
  /\ \E rule_list \in SeqsUpTo(Agents, MaxListLen) : config = MakeConfig(rule_list, <<>>)
  /\ \E critical \in CriticalLists : manifest = MakeManifest(critical)
  /\ hash_order = AgentSeq
  /\ \E request_text \in RequestTexts :
       calls = [th \in Threads |->
                  StartCall(request_text,
                            create_invocation_plan(config, manifest, hash_order, request_text).plan)]
  /\ plan = NoPlan
  /\ actually_invoked = {}
  /\ reported_failed = {}
  /\ result = NoResult
  /\ confirmation = NoConfirmation
  /\ LogIdle
  /\ DiscoveryIdle

(* the list object the call's agents_list names, as it is now *)
agents_list_of(cfg, c) ==
  IF c.where = "rule" THEN cfg.invocation_rules[c.request_type].agents.list
  ELSE IF c.where = "preset" THEN cfg.presets[c.request_type].agents
  ELSE c.own

ConcUnchanged ==
  UNCHANGED <<manifest, hash_order, plan, actually_invoked, reported_failed, result,
              now, log_files, log_calls, main_i, main_pc, confirmation,
              discovered_agents, selected, invocation_list>>

(* lines 170-173: request_type and agents_list *)
CallSelect(th) ==
  /\ calls[th].pc = "idle"
  /\ LET request_type == parse_request(config, calls[th].request_text)
         where == ReturnedObject(config, request_type)
     IN calls' = [calls EXCEPT ![th].pc = "selected",
                               ![th].request_type = request_type,
                               ![th].where = where,
                               ![th].own = IF where = "fresh"
                                           THEN get_agents_for_request(config, manifest, request_type)
                                           ELSE <<>>]
  /\ UNCHANGED config
  /\ ConcUnchanged

(* line 176 *)
CallCritical(th) ==
  /\ calls[th].pc = "selected"
  /\ calls' = [calls EXCEPT ![th].pc = "checked",
                            ![th].crit = check_critical_agents(manifest, agents_list_of(config, calls[th]))]
  /\ UNCHANGED config
  /\ ConcUnchanged

(* line 179 *)
CallGroups(th) ==
  /\ calls[th].pc = "checked"
  /\ calls' = [calls EXCEPT ![th].pc = "grouped",
                            ![th].suggested_additions =
                              check_group_completeness(config, hash_order, agents_list_of(config, calls[th]))]
  /\ UNCHANGED config
  /\ ConcUnchanged

(* line 183: agents_list.extend(suggested_additions), on the object itself *)
CallExtend(th) ==
  /\ calls[th].pc = "grouped"
  /\ LET c == calls[th]
         extended == agents_list_of(config, c) \o c.suggested_additions
     IN IF c.suggested_additions = <<>>
        THEN /\ calls' = [calls EXCEPT ![th].pc = "extended"]
             /\ UNCHANGED config
        ELSE IF c.where = "rule"
        THEN /\ calls' = [calls EXCEPT ![th].pc = "extended"]
             /\ config' = [config EXCEPT !.invocation_rules[c.request_type].agents.list = extended]
        ELSE IF c.where = "preset"
        THEN /\ calls' = [calls EXCEPT ![th].pc = "extended"]
             /\ config' = [config EXCEPT !.presets[c.request_type].agents = extended]
        ELSE /\ calls' = [calls EXCEPT ![th].pc = "extended", ![th].own = extended]
             /\ UNCHANGED config
  /\ ConcUnchanged

(* lines 184-220: list(set(agents_list)), the estimates and the plan *)
CallBuild(th) ==
  /\ calls[th].pc = "extended"
  /\ LET c == calls[th]
         current == agents_list_of(config, c)
         final == IF c.suggested_additions # <<>> THEN list_set(current, hash_order) ELSE current
         est == estimate_resources(config, final)
         warnings ==
           (IF c.crit.missing_critical # <<>>
            THEN <<Warning("critical_missing", c.crit.missing_critical, 0, 0)>> ELSE <<>>)
           \o (IF c.suggested_additions # <<>>
               THEN <<Warning("added_for_completeness", c.suggested_additions, 0, 0)>> ELSE <<>>)
           \o (IF Len(final) > LargeInvocationAbove
               THEN <<Warning("large_invocation", <<>>, Len(final), est.estimated_time)>> ELSE <<>>)
     IN calls' = [calls EXCEPT
                    ![th].pc = "done",
                    ![th].plan =
                      [ request_text |-> c.request_text,
                        request_type |-> c.request_type,
                        agents_to_invoke |-> final,
                        estimated_time |-> est.estimated_time,
                        estimated_cost |-> est.estimated_cost,
                        requires_confirmation |-> Len(final) > confirm_threshold(config),
                        critical_agents_included |-> c.crit.all_included,
                        warnings |-> warnings ]]
  /\ UNCHANGED config
  /\ ConcUnchanged

NextConc ==
  \E th \in Threads :
    \/ CallSelect(th)
    \/ CallCritical(th)
    \/ CallGroups(th)
    \/ CallExtend(th)
    \/ CallBuild(th)

SpecConc == InitConc /\ [][NextConc]_vars

(* ------------------------ classifying requests ----------------------- *)
AliasConfigs == {Aliases, Reverse(Aliases)}

WellFormedRules == {"whole_team", "full_review", "security_review"}

(* a configuration whose rules all carry a list or the "all" marker *)
InitParse ==
  /\ \E aliases \in AliasConfigs :
       config = [MakeConfig(<<>>, <<>>) EXCEPT
                   !.invocation_aliases = aliases,
                   !.invocation_rules = [k \in WellFormedRules |-> @[k]]]
  /\ manifest = MakeManifest(<<>>)
  /\ hash_order = AgentSeq
  /\ CallerIdle
  /\ LogIdle
  /\ DiscoveryIdle

NextParse == \E request_text \in ParseTexts : PlanOnce(request_text)

SpecParse == InitParse /\ [][NextParse]_vars

(* ------------------- planning against malformed rules ----------------- *)
MalformedTexts == {T_compliance, T_ml}

NextMalformed == \E request_text \in MalformedTexts : CreatePlan(request_text)

SpecMalformed == Init /\ [][NextMalformed]_vars

(* ------------------------------ selection ----------------------------- *)
RequestTypes == {"whole_team", "all", "full_review", "security_review", "leadership_review", "custom"}

SelectUnchanged ==
  UNCHANGED <<config, manifest, hash_order, plan, actually_invoked, reported_failed, confirmation, calls,
              result, now, log_files, log_calls, main_i, main_pc>>

(* selected and invocation_list hold the value the latest call returned *)
ProcessAgentFiles(readable) ==
  /\ discovered_agents' = process_agent_files(readable)
  /\ selected' = NoList
  /\ invocation_list' = NoList
  /\ SelectUnchanged

GetAgentsForRequest(request_type) ==
  /\ selected' = [request_type |-> request_type,
                  agents |-> get_agents_for_request(config, manifest, request_type)]
  /\ invocation_list' = NoList
  /\ UNCHANGED discovered_agents
  /\ SelectUnchanged

GenerateInvocationList(request_type) ==
  /\ invocation_list' = [request_type |-> request_type,
                         agents |-> generate_invocation_list(config, discovered_agents, request_type)]
  /\ selected' = NoList
  /\ UNCHANGED discovered_agents
  /\ SelectUnchanged

NextSelect ==
  \/ \E readable \in SUBSET Agents : ProcessAgentFiles(readable)
  \/ \E request_type \in RequestTypes : GetAgentsForRequest(request_type)
  \/ \E request_type \in RequestTypes : GenerateInvocationList(request_type)

InitSelect ==
  /\ \E rule_list \in SeqsUpTo(Agents, MaxListLen),
        preset_list \in SeqsUpTo(Agents, MaxPresetLen) :
       config = MakeConfig(rule_list, preset_list)
  /\ manifest = MakeManifest(<<>>)
  /\ hash_order = AgentSeq
  /\ CallerIdle
  /\ LogIdle
  /\ DiscoveryIdle

SpecSelect == InitSelect /\ [][NextSelect]_vars

(* ------------------------------- claims ------------------------------- *)
Critical == Range(manifest.validation.critical_agents_always_include)

Planned(r) == Range(r.plan.agents_to_invoke)

RateOf(r) == completion_rate(r.agents_invoked, r.plan.agents_to_invoke)

HasIssue(r, kind) == \E i \in 1..Len(r.issues) : r.issues[i].kind = kind

HasWarning(p, kind) == \E i \in 1..Len(p.warnings) : p.warnings[i].kind = kind

(* C1: verification reports success = false exactly when a critical agent  *)
(* was skipped or the completion rate is below 0.90 (stated for non-empty  *)
(* plans; the empty plan is the subject of C7)                             *)
C1_SuccessIffNoCriticalSkipAndRateOk ==
  (result # NoResult /\ Len(result.plan.agents_to_invoke) > 0) =>
    ((result.success = FALSE) <=>
       \/ Critical \cap Range(result.agents_skipped) # {}
       \/ BelowThreshold(RateOf(result)))

(* C2: critical_agents_included is true exactly when every critical agent  *)
(* of the roster is in the plan's final agents_to_invoke                   *)
C2_CriticalFlagMatchesFinalAgents ==
  plan # NoPlan =>
    (plan.critical_agents_included <=> Critical \subseteq Range(plan.agents_to_invoke))

SamePlan(p, q) ==
  /\ p.request_type = q.request_type
  /\ Range(p.agents_to_invoke) = Range(q.agents_to_invoke)
  /\ p.estimated_time = q.estimated_time
  /\ p.estimated_cost = q.estimated_cost
  /\ p.requires_confirmation = q.requires_confirmation
  /\ p.critical_agents_included = q.critical_agents_included
  /\ p.warnings = q.warnings

(* C3: planning the same request text again, right after planning it,      *)
(* gives the same plan                                                     *)
C3_RepeatedPlanIsIdentical ==
  [][\A t \in RequestTexts :
       (plan # NoPlan /\ plan.request_text = t /\ result' = NoResult /\ CreatePlan(t))
         => SamePlan(plan, plan')]_vars

(* C4: no planning or verification call changes the configuration document *)
(* or the manifest                                                         *)
C4_InputsNeverMutated ==
  [][config' = config /\ manifest' = manifest]_vars

(* C5: in every planning call, each complete-group rule with a trigger     *)
(* agent in the selector's list has all its must_include members in the    *)
(* plan's final agents_to_invoke                                           *)
C5_TriggeredGroupsAreComplete ==
  [][\A t \in RequestTexts :
       (result' = NoResult /\ plan' # NoPlan /\ plan'.request_text = t /\ CreatePlan(t)) =>
         LET sel == get_agents_for_request(config, manifest, parse_request(config, t))
             groups == config.safety_checks.complete_groups
         IN \A i \in 1..Len(groups) :
              Range(groups[i].trigger_agents) \cap Range(sel) # {}
                => Range(groups[i].must_include) \subseteq Range(plan'.agents_to_invoke)]_vars

C5_Witness ==
  /\ plan # NoPlan
  /\ HasWarning(plan, "added_for_completeness")
  /\ \E i \in 1..Len(config.safety_checks.complete_groups) :
       Range(config.safety_checks.complete_groups[i].must_include)
         \subseteq Range(plan.agents_to_invoke)

(* C6: agents_invoked is the planned agents that were reported invoked,    *)
(* agents_skipped the planned agents that were not; they are disjoint and  *)
(* cover the plan, position by position; agents reported but not planned   *)
(* are in neither list and do not count towards the completion rate        *)
C6_InvokedSkippedPartitionPlan ==
  result # NoResult =>
    LET planned == result.plan.agents_to_invoke
    IN /\ Range(result.agents_invoked) = Range(planned) \cap actually_invoked
       /\ Range(result.agents_skipped) = Range(planned) \ actually_invoked
       /\ Range(result.agents_invoked) \cap Range(result.agents_skipped) = {}
       /\ \A a \in Agents :
            Count(result.agents_invoked, a) + Count(result.agents_skipped, a) = Count(planned, a)
       /\ \A a \in actually_invoked \ Range(planned) :
            a \notin Range(result.agents_invoked) \cup Range(result.agents_skipped)
       /\ HasIssue(result, "low_completion") <=>
            \/ Len(planned) = 0
            \/ 10 * Cardinality({i \in 1..Len(planned) : planned[i] \in actually_invoked})
                 < 9 * Len(planned)

C6_Witness ==
  /\ result # NoResult
  /\ result.agents_invoked # <<>>
  /\ result.agents_skipped # <<>>
  /\ actually_invoked \ Planned(result) # {}

(* C7: an empty plan verified against an empty report gives completion     *)
(* rate 0, success = true and no issues                                    *)
C7_EmptyPlanIsVacuousSuccess ==
  (result # NoResult /\ result.plan.agents_to_invoke = <<>> /\ actually_invoked = {}) =>
    /\ RateOf(result)[1] = 0
    /\ result.success = TRUE
    /\ result.issues = <<>>

(* C8: a planned agent the execution layer reports as attempted-but-failed *)
(* is in agents_failed and not in agents_skipped, and every planned agent  *)
(* is in exactly one of agents_invoked, agents_failed, agents_skipped      *)
C8_FailedAgentsReportedSeparately ==
  result # NoResult =>
    /\ \A a \in reported_failed \cap Planned(result) :
         a \in Range(result.agents_failed) /\ a \notin Range(result.agents_skipped)
    /\ \A a \in Planned(result) :
         Cardinality({k \in {"invoked", "failed", "skipped"} :
            a \in Range(CASE k = "invoked" -> result.agents_invoked
                          [] k = "failed" -> result.agents_failed
                          [] OTHER -> result.agents_skipped)}) = 1

(* C9: the audit log is append-only: a log_invocation call adds one        *)
(* record, and no step changes or removes a record already written         *)
C9_AuditLogAppendOnly ==
  [][/\ \A f \in DOMAIN log_files : f \in DOMAIN log_files' /\ log_files'[f] = log_files[f]
     /\ log_calls' = log_calls + 1
          => Cardinality(DOMAIN log_files') = Cardinality(DOMAIN log_files) + 1]_vars

RuleIsAll(request_type) ==
  /\ request_type \in DOMAIN config.invocation_rules
  /\ config.invocation_rules[request_type].agents.kind = "all"

ExactlyOnce(list, ids) ==
  /\ Range(list) = ids
  /\ \A a \in ids : Count(list, a) = 1

DiscoveredIds == {discovered_agents[i].name : i \in 1..Len(discovered_agents)}

ValidIds == {discovered_agents[i].name : i \in {j \in 1..Len(discovered_agents) : discovered_agents[j].valid}}

(* C10 as stated: for a rule with agents = "all", both selectors return    *)
(* every roster identifier, valid or not, exactly once                     *)
C10_AllReturnsWholeRoster ==
  [][\A rt \in RequestTypes :
       /\ (GetAgentsForRequest(rt) /\ RuleIsAll(rt))
            => ExactlyOnce(selected'.agents, Range(manifest.agents))
       /\ (GenerateInvocationList(rt) /\ RuleIsAll(rt))
            => ExactlyOnce(invocation_list'.agents, DiscoveredIds)]_vars

(* C10 amended: for a rule with agents = "all", get_agents_for_request     *)
(* returns every manifest identifier exactly once, and                     *)
(* generate_invocation_list returns exactly the discovered agents whose    *)
(* valid flag is set, each once                                            *)
C10_AllReturnsRosterOrValidAgents ==
  [][\A rt \in RequestTypes :
       /\ (GetAgentsForRequest(rt) /\ RuleIsAll(rt))
            => ExactlyOnce(selected'.agents, Range(manifest.agents))
       /\ (GenerateInvocationList(rt) /\ RuleIsAll(rt))
            => ExactlyOnce(invocation_list'.agents, ValidIds)]_vars

C10_Witness ==
  /\ invocation_list # NoList /\ invocation_list.request_type = "full_review"
  /\ ValidIds # DiscoveredIds
  /\ invocation_list.agents # <<>>
  /\ Range(invocation_list.agents) = ValidIds

(* C11: selection resolves a request type by the invocation rules first,  *)
(* then the presets, then returns every identifier of the roster: a type   *)
(* that is a rule key uses the rule even when a preset has the same name,  *)
(* a type that is only a preset key gets the preset's list, and a type in  *)
(* neither gets the whole roster                                           *)
C11_RulesThenPresetsThenAll ==
  [][\A rt \in RequestTypes :
       GetAgentsForRequest(rt) =>
         LET rules == config.invocation_rules
             presets == config.presets
         IN /\ (rt \in DOMAIN rules /\ rules[rt].agents.kind = "list")
                 => selected'.agents = rules[rt].agents.list
            /\ (rt \notin DOMAIN rules /\ rt \in DOMAIN presets)
                 => selected'.agents = presets[rt].agents
            /\ (rt \notin DOMAIN rules /\ rt \notin DOMAIN presets)
                 => ExactlyOnce(selected'.agents, Range(manifest.agents))]_vars

C11_Witness ==
  /\ selected.request_type = "security_review"
  /\ "security_review" \in DOMAIN config.invocation_rules \cap DOMAIN config.presets
  /\ config.presets["security_review"].agents # config.invocation_rules["security_review"].agents.list
  /\ selected.agents = config.invocation_rules["security_review"].agents.list

RuleIsMalformed(request_type) ==
  /\ request_type \in DOMAIN config.invocation_rules
  /\ config.invocation_rules[request_type].agents.kind \notin {"all", "list"}

(* C12: a rule whose agents field is absent or neither a list nor "all" is *)
(* treated as absent: planning does not raise, the plan holds every roster *)
(* identifier, and a plan that lacks a critical agent carries the          *)
(* missing-critical warning                                                *)
C12_MalformedRuleFailsOpen ==
  [][\A t \in MalformedTexts :
       (CreatePlan(t) /\ RuleIsMalformed(parse_request(config, t))) =>
         /\ plan' # PlanRaised
         /\ Range(plan'.agents_to_invoke) = Range(manifest.agents)
         /\ plan'.agents_to_invoke # <<>>
         /\ (~(Critical \subseteq Range(plan'.agents_to_invoke))
               => HasWarning(plan', "critical_missing"))]_vars

(* C13: no identifier occurs twice in a plan's agents_to_invoke, and the   *)
(* estimates and the confirmation flag are computed from the number of     *)
(* distinct identifiers                                                    *)
C13_NoDuplicateAgents ==
  plan # NoPlan =>
    LET distinct == Cardinality(Range(plan.agents_to_invoke))
        rc == config.resource_management
    IN /\ \A a \in Agents : Count(plan.agents_to_invoke, a) <= 1
       /\ plan.estimated_time = distinct * rc.time_per_agent + rc.time_overhead
       /\ plan.estimated_cost = distinct * rc.estimated_cost_per_agent
       /\ plan.requires_confirmation
            <=> distinct > config.safety_checks.require_confirmation_above

SameLetter(c, d) ==
  \/ c = d
  \/ c \in DOMAIN UpperToLower /\ UpperToLower[c] = d
  \/ d \in DOMAIN UpperToLower /\ UpperToLower[d] = c

(* sub occurs in text, letter case ignored *)
Occurs(sub, text) ==
  \E i \in 0..(Len(text) - Len(sub)) : \A k \in 1..Len(sub) : SameLetter(sub[k], text[i + k])

AliasHasPhraseIn(alias, text) ==
  IF alias.kind = "list"
  THEN \E i \in 1..Len(alias.phrases) : Occurs(alias.phrases[i], text)
  ELSE Occurs(alias.phrases, text)

MatchingAliases(text) ==
  {i \in 1..Len(config.invocation_aliases) : AliasHasPhraseIn(config.invocation_aliases[i], text)}

Least(S) == CHOOSE i \in S : \A j \in S : i <= j

(* C14: a text that contains a phrase of some alias group, in any letter   *)
(* case and with any words around it, is classified with the tag of the    *)
(* first such group in the configuration's order, whatever domain keyword  *)
(* it also contains                                                        *)
C14_FirstMatchingAliasWins ==
  plan # NoPlan =>
    LET m == MatchingAliases(plan.request_text)
    IN m # {} => plan.request_type = config.invocation_aliases[Least(m)].tag

C14_Witness ==
  /\ plan # NoPlan
  /\ Cardinality(MatchingAliases(plan.request_text)) = 2
  /\ plan.request_text # lower(plan.request_text)
  /\ plan.request_type = config.invocation_aliases[1].tag
  /\ config.invocation_aliases[1].tag = "security_review"

KeywordType(text) ==
  IF Occurs(K_security, text) THEN "security_review"
  ELSE IF Occurs(K_leadership, text) \/ Occurs(K_executive, text) THEN "leadership_review"
  ELSE IF Occurs(K_technical, text) /\ Occurs(K_review, text) THEN "technical_review"
  ELSE IF Occurs(K_product, text) THEN "product_review"
  ELSE IF Occurs(K_ai, text) \/ Occurs(K_ml, text) THEN "ai_ml_review"
  ELSE IF Occurs(K_compliance, text) THEN "compliance_review"
  ELSE IF \E w \in {K_review, K_evaluate, K_assess, K_analyze} : Occurs(w, text) THEN "whole_team"
  ELSE "custom"

(* C15: a text with no alias phrase is classified by the first domain      *)
(* keyword rule that matches, in the order security, leadership/executive, *)
(* technical and review, product, ai/ml, compliance; failing those it is   *)
(* "whole_team" if it contains review, evaluate, assess or analyze, and    *)
(* "custom" otherwise; every text gets a tag                               *)
C15_KeywordPriorityThenFallbacks ==
  plan # NoPlan =>
    /\ plan # PlanRaised
    /\ MatchingAliases(plan.request_text) = {}
         => plan.request_type = KeywordType(plan.request_text)

C15_Witness ==
  /\ plan # NoPlan
  /\ MatchingAliases(plan.request_text) = {}
  /\ Occurs(K_product, plan.request_text)
  /\ Occurs(K_security, plan.request_text)
  /\ SubSeq(plan.request_text, 1, 7) = F_product
  /\ plan.request_type = "security_review"

ConfirmAbove ==
  IF "require_confirmation_above" \in DOMAIN config.safety_checks
  THEN config.safety_checks.require_confirmation_above ELSE 10

DoubleAbove ==
  IF "require_double_confirmation_above" \in DOMAIN config.safety_checks
  THEN config.safety_checks.require_double_confirmation_above ELSE 25

(* C16: requires_confirmation is true exactly when the final agent count   *)
(* is strictly greater than require_confirmation_above (default 10); the   *)
(* confirmation level is none whenever requires_confirmation is false,     *)
(* whatever the double threshold, double when it is true and the count is  *)
(* strictly greater than require_double_confirmation_above (default 25),   *)
(* and single otherwise; without a prompt the operation proceeds           *)
C16_ConfirmationLevelFollowsThresholds ==
  (plan # NoPlan /\ plan # PlanRaised) =>
    LET count == Len(plan.agents_to_invoke)
    IN /\ plan.requires_confirmation <=> count > ConfirmAbove
       /\ confirmation # NoConfirmation =>
            /\ confirmation.level =
                 IF count <= ConfirmAbove THEN "none"
                 ELSE IF count > DoubleAbove THEN "double" ELSE "single"
            /\ confirmation.level = "none" => confirmation.proceed

C16_Witness ==
  /\ plan # NoPlan
  /\ plan # PlanRaised
  /\ Len(plan.agents_to_invoke) = NumAgents
  /\ ConfirmAbove < DoubleAbove
  /\ DoubleAbove < NumAgents
  /\ plan.requires_confirmation
  /\ confirmation.level = "double"

Kinds(entries) == [i \in 1..Len(entries) |-> entries[i].kind]

CriticalWasSkipped(r) == Critical \cap Range(r.agents_skipped) # {}

(* fewer than nine in ten of the planned agents were invoked *)
LowCompletion(r) ==
  \/ Len(r.plan.agents_to_invoke) = 0
  \/ 10 * Len(r.agents_invoked) < 9 * Len(r.plan.agents_to_invoke)

(* C17: the two failure conditions of verification are checked             *)
(* independently and each adds its own entry to issues when triggered, the *)
(* critical-skip entry before the low-completion entry; when a plan holds  *)
(* a critical agent and nothing is invoked, the completion rate is 0,      *)
(* success is false and both entries are present                           *)
C17_IssuesAreIndependentAndOrdered ==
  result # NoResult =>
    /\ Kinds(result.issues) =
         (IF CriticalWasSkipped(result) THEN <<"critical_skipped">> ELSE <<>>)
         \o (IF LowCompletion(result) THEN <<"low_completion">> ELSE <<>>)
    /\ (Critical \cap Planned(result) # {} /\ actually_invoked = {}) =>
         /\ RateOf(result)[1] = 0
         /\ result.success = FALSE
         /\ Kinds(result.issues) = <<"critical_skipped", "low_completion">>

C17_Witness ==
  /\ result # NoResult
  /\ Critical \cap Planned(result) # {}
  /\ actually_invoked = {}
  /\ result.agents_invoked = <<>>
  /\ result.success = FALSE
  /\ Len(result.issues) = 2

WarningWith(p, kind) == CHOOSE w \in Range(p.warnings) : w.kind = kind

(* C18: a plan's warnings come in the order missing-critical,              *)
(* added-for-completeness, large-invocation, each present only when its    *)
(* condition holds: the first lists exactly the critical agents absent     *)
(* from the plan's agents, the second exactly the identifiers added by     *)
(* group expansion, the third appears exactly when the final count exceeds *)
(* 25; a plan is returned whatever the warnings                            *)
C18_WarningsDescribeFinalPlan ==
  [][\A t \in RequestTexts :
       (result' = NoResult /\ plan' # NoPlan /\ plan'.request_text = t /\ CreatePlan(t)) =>
         LET sel == get_agents_for_request(config, manifest, parse_request(config, t))
             final == Range(plan'.agents_to_invoke)
             missing == Critical \ final
             added == final \ Range(sel)
         IN /\ plan' # PlanRaised
            /\ Kinds(plan'.warnings) =
                 (IF missing # {} THEN <<"critical_missing">> ELSE <<>>)
                 \o (IF added # {} THEN <<"added_for_completeness">> ELSE <<>>)
                 \o (IF Len(plan'.agents_to_invoke) > 25 THEN <<"large_invocation">> ELSE <<>>)
            /\ missing # {} => Range(WarningWith(plan', "critical_missing").agents) = missing
            /\ added # {} => Range(WarningWith(plan', "added_for_completeness").agents) = added]_vars

AddedByExpansion(p) ==
  IF HasWarning(p, "added_for_completeness")
  THEN Range(WarningWith(p, "added_for_completeness").agents)
  ELSE {}

Triggers(g) == Range(g.trigger_agents)

(* C19, as claimed: the final agents_to_invoke is closed under the         *)
(* complete-group rules: a group with a trigger agent in the final list,   *)
(* even one added as another group's must_include member, has all its      *)
(* must_include members in the final list                                  *)
C19_FinalListIsClosed ==
  (plan # NoPlan /\ plan # PlanRaised) =>
    \A g \in Range(config.safety_checks.complete_groups) :
      Triggers(g) \cap Range(plan.agents_to_invoke) # {}
        => Range(g.must_include) \subseteq Range(plan.agents_to_invoke)

(* C19, amended: a group with a trigger agent in the final list that was   *)
(* not itself added by group expansion has all its must_include members in *)
(* the final list; expansion is one pass                                   *)
C19_SelectedTriggersAreComplete ==
  (plan # NoPlan /\ plan # PlanRaised) =>
    \A g \in Range(config.safety_checks.complete_groups) :
      Triggers(g) \cap (Range(plan.agents_to_invoke) \ AddedByExpansion(plan)) # {}
        => Range(g.must_include) \subseteq Range(plan.agents_to_invoke)

C19_Witness ==
  /\ plan # NoPlan
  /\ plan # PlanRaised
  /\ \E g \in Range(config.safety_checks.complete_groups) :
       /\ Triggers(g) \cap (Range(plan.agents_to_invoke) \ AddedByExpansion(plan)) # {}
       /\ Range(g.must_include) \cap AddedByExpansion(plan) # {}
  /\ \E g \in Range(config.safety_checks.complete_groups) :
       /\ Triggers(g) \cap AddedByExpansion(plan) # {}
       /\ ~(Range(g.must_include) \subseteq Range(plan.agents_to_invoke))

(* C20: two create_invocation_plan calls for the same request running     *)
(* concurrently on one verifier, their steps interleaved in any order,     *)
(* each return the plan a single isolated call returns: same agent set,    *)
(* critical_agents_included flag and warnings                              *)
C20_ConcurrentCallsReturnIsolatedPlan ==
  \A th \in Threads :
    calls[th].pc = "done" =>
      /\ Range(calls[th].plan.agents_to_invoke) = Range(calls[th].isolated.agents_to_invoke)
      /\ calls[th].plan.critical_agents_included = calls[th].isolated.critical_agents_included
      /\ calls[th].plan.warnings = calls[th].isolated.warnings

====
